---------------------------- MODULE Spec2Model ----------------------------
(***************************************************************************)
(* ALT - Analise de Legibilidade Textual.                                  *)
(*                                                                         *)
(* A model of the syllable counter (alt_legibilidade/silabas.py) and of    *)
(* the metric pipeline and batch analysis of interface_web.py.             *)
(*                                                                         *)
(* A text is a sequence of one-character strings (a Python str is a        *)
(* sequence of code points).  The cursor i is 0-based as in the code, so   *)
(* the character under the cursor is t[i + 1].                             *)
(***************************************************************************)
EXTENDS Integers, Sequences, FiniteSets, TLC

VARIABLES
    texto,          \* contar_silabas: the argument
    texto_lower,    \* contar_silabas: texto.lower()
    i,              \* contar_silabas: the cursor
    silabas_total,  \* contar_silabas: the accumulated count
    pc,             \* contar_silabas: "inicio", "laco" or "fim"
    retorno,        \* contar_silabas: the value returned (at "fim")
    variantes,      \* what each of the three counters has returned on texto
    entrada,        \* analisar_texto_simples: the text, as its counts
    resultado_analise,  \* analisar_texto_simples: the value returned
    fase,           \* analisar_texto_simples: "ocioso", "chamada", "retornou"
    cliques,        \* clicks of the analysis button so far in the session
    modo,           \* the tab whose button is clicked: "arquivos", "planilha"
    documentos,     \* uploaded_files, or the rows of the column selected
    etapa,          \* the handler: "aguardando", "laco", "temporario",
                    \* "analisado", "exibido"
    proximo,        \* the position of the document the loop is at
    atual,          \* what the analysis of that document has returned
    resultados,     \* the list resultados
    erros,          \* the list erros (file batch only)
    temporarios,    \* the temporary files on disk, each named by the click
                    \* and the position of the file it copies
    session_state,  \* st.session_state: its key banco_palavras
    cargas,         \* calls of carregar_banco_palavras so far
    tela            \* what the page shows after the analysis

vars_silabas == <<texto, texto_lower, i, silabas_total, pc, retorno>>

vars_analise == <<entrada, resultado_analise, fase>>

vars_lote ==
    <<cliques, modo, documentos, etapa, proximo, atual, resultados, erros, temporarios,
      session_state, cargas, tela>>

vars == <<vars_silabas, vars_analise, vars_lote, variantes>>

---------------------------------------------------------------------------
(* Bounds of the model.                                                    *)

\* Longest text enumerated exhaustively.
MaxLen == 3

\* Largest value of each of the five counts enumerated exhaustively.
MaxContagem == 3

\* Most documents (files, or rows of a column) in one batch.
MaxDocs == 2

\* Most clicks of the analysis button in one session.
MaxCliques == 2

---------------------------------------------------------------------------
(* The catalogues of contar_silabas.                                       *)

vogais ==
    { "a", "ã", "â", "á", "à",
      "e", "é", "ê", "è",
      "i", "í", "ì", "î",
      "o", "õ", "ô", "ó", "ò",
      "u", "ú", "ù", "û", "ü" }

ditongos ==
    { <<"a","i">>, <<"a","u">>, <<"e","i">>, <<"e","u">>, <<"é","u">>,
      <<"i","u">>, <<"o","i">>, <<"ó","i">>, <<"o","u">>, <<"u","i">>,
      <<"i","a">>, <<"i","e">>, <<"i","o">>, <<"u","a">>, <<"u","e">>,
      <<"u","o">>, <<"U+0169","i">>,
      <<"ã","e">>, <<"ã","o">>, <<"õ","e">> }

tritongos ==
    { <<"u","a","i">>, <<"u","e","i">>, <<"u","ã","o">>,
      <<"u","õ","e">>, <<"u","i","u">>, <<"u","o","u">> }

hiatos ==
    { <<"a","í">>, <<"a","ú">>, <<"e","í">>, <<"e","ú">>, <<"o","í">>,
      <<"u","í">>,
      <<"a","a">>, <<"e","e">>, <<"i","i">>, <<"o","o">>, <<"u","u">> }

tonicos == { "í", "ú" }

---------------------------------------------------------------------------
(* Characters: the part of Unicode the model's texts are written in.       *)

\* Lower-case letters that are no vowel of the catalogue: consonants, the
\* u with tilde of the diphthong catalogue (U+0169) and the dotless i
\* (U+0131).  Characters outside Latin-1 are written by their code points;
\* each is one character of a text.
consoantes == { "p", "s", "d", "U+0169", "U+0131" }

\* Unicode's simple case pairs <<lower, upper>> of the letters above.
caixa ==
    { <<"a","A">>, <<"ã","Ã">>, <<"â","Â">>, <<"á","Á">>, <<"à","À">>,
      <<"e","E">>, <<"é","É">>, <<"ê","Ê">>, <<"è","È">>,
      <<"i","I">>, <<"í","Í">>, <<"ì","Ì">>, <<"î","Î">>,
      <<"o","O">>, <<"õ","Õ">>, <<"ô","Ô">>, <<"ó","Ó">>, <<"ò","Ò">>,
      <<"u","U">>, <<"ú","Ú">>, <<"ù","Ù">>, <<"û","Û">>, <<"ü","Ü">>,
      <<"p","P">>, <<"s","S">>, <<"d","D">>, <<"U+0169","U+0168">> }

maiusculas == { p[2] : p \in caixa }

\* White space (str.strip removes it) and characters that are no letters.
brancos == { " " }

outros == { "1", "." }

\* str.lower() of one character.
lower_char(c) ==
    IF c \in maiusculas
    THEN (CHOOSE p \in caixa : p[2] = c)[1]
    ELSE c

\* str.upper() of one character.  The dotless i has no capital of its own:
\* its upper case is the capital I of the dotted i.
upper_char(c) ==
    IF \E p \in caixa : p[1] = c
    THEN (CHOOSE p \in caixa : p[1] = c)[2]
    ELSE IF c = "U+0131" THEN "I" ELSE c

\* str.lower() of a text of one character.  The capital I with a dot above
\* (U+0130) is the one character whose lower case is two characters: an i
\* and the combining dot above (U+0307), which is no letter.
minusculas(c) ==
    IF c = "U+0130" THEN <<"i", "U+0307">> ELSE <<lower_char(c)>>

\* Mutant of str_lower: the text is scanned as given.
str_lower_omitido(t) == t

\* str.lower() of the first n characters of t.
RECURSIVE str_lower_ate(_, _)
str_lower_ate(t, n) ==
    IF n = 0 THEN <<>> ELSE str_lower_ate(t, n - 1) \o minusculas(t[n])

str_lower(t) == str_lower_ate(t, Len(t))

str_upper(t) == [k \in 1..Len(t) |-> upper_char(t[k])]

\* str.isalpha() of one character.
isalpha(c) == c \in vogais \cup consoantes \cup maiusculas \cup { "U+0130" }

\* str.strip() leaves nothing: every character is white space.
so_brancos(t) == \A k \in 1..Len(t) : t[k] \in brancos

\* t[a:b] for 0 <= a <= b <= len(t).
fatia(t, a, b) == [k \in 1..(b - a) |-> t[a + k]]

---------------------------------------------------------------------------
(* contar_silabas: the scan.                                               *)

\* texto_lower[i:i+3] and texto_lower[i:i+2].
tritongo(t, c) == fatia(t, c, c + 3)

ditongo(t, c) == fatia(t, c, c + 2)

\* The tests of the loop body, in the order the code makes them.
e_vogal(t, c) == t[c + 1] \in vogais

\* Mutant of e_tritongo: the bound of the three-character window is off by
\* one, so a triple that ends the text is not looked at.
e_tritongo_curto(t, c) == c + 3 < Len(t) /\ tritongo(t, c) \in tritongos

e_tritongo(t, c) == c + 2 < Len(t) /\ tritongo(t, c) \in tritongos

tem_par(t, c) == c + 1 < Len(t)

e_hiato(t, c) == ditongo(t, c) \in hiatos

e_ditongo(t, c) == ditongo(t, c) \in ditongos

segunda_vogal(t, c) == t[c + 2] \in vogais

\* Mutant of tem_tonica: only the second vowel of the pair is looked at.
tem_tonica_segunda(t, c) == ditongo(t, c)[2] \in tonicos

tem_tonica(t, c) == ditongo(t, c)[2] \in tonicos \/ ditongo(t, c)[1] \in tonicos

\* The branch of the loop body taken with the cursor at c < len(t).
ramo(t, c) ==
    IF ~e_vogal(t, c) THEN "nao_vogal"
    ELSE IF e_tritongo(t, c) THEN "tritongo"
    ELSE IF tem_par(t, c)
         THEN IF e_hiato(t, c) THEN "hiato"
              ELSE IF e_ditongo(t, c) THEN "ditongo"
              ELSE IF segunda_vogal(t, c)
                   THEN IF tem_tonica(t, c) THEN "hiato_tonico"
                                            ELSE "ditongo_assumido"
                   ELSE "vogal_isolada"
         ELSE "vogal_final"

\* The 0-based indices of texto_lower read by the loop body with the cursor
\* at c: char, the two slices and texto_lower[i+1].
indices_lidos(t, c) ==
    { c }
    \cup (IF e_vogal(t, c) /\ c + 2 < Len(t) THEN c..(c + 2) ELSE {})
    \cup (IF e_vogal(t, c) /\ ~e_tritongo(t, c) /\ tem_par(t, c)
          THEN c..(c + 1) ELSE {})

\* Mutant of silabas_grupo: the vowel that ends the text adds nothing.
silabas_grupo_final_zero(r) ==
    IF r \in {"nao_vogal", "vogal_final"} THEN 0
    ELSE IF r \in {"hiato", "hiato_tonico"} THEN 2
    ELSE 1

\* Mutant of silabas_grupo: a catalogued hiatus counts one syllable.
silabas_grupo_hiato_um(r) ==
    IF r \in {"nao_vogal"} THEN 0
    ELSE IF r \in {"hiato_tonico"} THEN 2
    ELSE 1

\* silabas_grupo: what the branch adds to silabas_total.
silabas_grupo(r) ==
    CASE r = "nao_vogal"        -> 0
      [] r = "tritongo"         -> 1
      [] r = "hiato"            -> 2
      [] r = "ditongo"          -> 1
      [] r = "hiato_tonico"     -> 2
      [] r = "ditongo_assumido" -> 1
      [] r = "vogal_isolada"    -> 1
      [] r = "vogal_final"      -> 1

\* Mutant of avanco: a vowel that ends the text moves the cursor by two, as
\* a pair does.
avanco_final_dois(r) ==
    IF r \in {"tritongo"} THEN 3
    ELSE IF r \in {"nao_vogal", "vogal_isolada"} THEN 1
    ELSE 2

\* Mutant of avanco: a catalogued diphthong moves the cursor by one, so its
\* second vowel is scanned again.
avanco_ditongo_um(r) ==
    IF r \in {"tritongo"} THEN 3
    ELSE IF r \in {"hiato", "hiato_tonico", "ditongo_assumido"} THEN 2
    ELSE 1

\* What the branch adds to the cursor.
avanco(r) ==
    CASE r = "nao_vogal"        -> 1
      [] r = "tritongo"         -> 3
      [] r = "hiato"            -> 2
      [] r = "ditongo"          -> 2
      [] r = "hiato_tonico"     -> 2
      [] r = "ditongo_assumido" -> 2
      [] r = "vogal_isolada"    -> 1
      [] r = "vogal_final"      -> 1

\* Mutant of valor_retorno: the floor looks at the count alone.
valor_retorno_sem_letras(total, t) ==
    IF total > 0 THEN total ELSE 0

\* The return expression: at least 1 when a vowel group was counted or the
\* text (as given, not lower-cased) holds a letter, and 0 otherwise.
valor_retorno(total, t) ==
    IF total > 0 \/ \E k \in 1..Len(t) : isalpha(t[k])
    THEN (IF total > 1 THEN total ELSE 1)
    ELSE 0

\* The guard of the function: an empty or all-blank text.
texto_vazio(t) == t = <<>> \/ so_brancos(t)

\* The while loop run to its end from cursor c with total counted so far.
RECURSIVE varrer(_, _, _)
varrer(t, c, total) ==
    IF c < Len(t)
    THEN varrer(t, c + avanco(ramo(t, c)), total + silabas_grupo(ramo(t, c)))
    ELSE total

\* contar_silabas as a function of its argument.
contar_silabas(t) ==
    IF texto_vazio(t)
    THEN 0
    ELSE valor_retorno(varrer(str_lower(t), 0, 0), t)

---------------------------------------------------------------------------
(* The two other counters of silabas.py.                                   *)

\* The diphthong catalogue of both: that of contar_silabas without its pair
\* with the u with tilde.
ditongos_das_variantes ==
    { <<"a","i">>, <<"a","u">>, <<"e","i">>, <<"e","u">>, <<"é","u">>,
      <<"i","u">>, <<"o","i">>, <<"ó","i">>, <<"o","u">>, <<"u","i">>,
      <<"i","a">>, <<"i","e">>, <<"i","o">>, <<"u","a">>, <<"u","e">>,
      <<"u","o">>,
      <<"ã","e">>, <<"ã","o">>, <<"õ","e">> }

\* The 0-based indices at which a window of n characters of t starts.
janelas(t, n) == 0..(Len(t) - n)

\* Passo 1: a vowel.
passo_vogal(t, c) == t[c + 1] \in vogais

\* Passo 2: a diphthong that is no hiatus.
passo_ditongo(t, c) ==
    fatia(t, c, c + 2) \in ditongos_das_variantes
        /\ fatia(t, c, c + 2) \notin hiatos

\* Passo 3: a triphthong.
passo_tritongo(t, c) == fatia(t, c, c + 3) \in tritongos

\* Passo 4: a known hiatus.
passo_hiato(t, c) == fatia(t, c, c + 2) \in hiatos

\* contar_silabas_original_melhorada as a function of its argument.
contar_silabas_original_melhorada(t) ==
    IF texto_vazio(t) THEN 0
    ELSE
        LET tl == str_lower(t)
            silabas ==
                Cardinality({ c \in janelas(tl, 1) : passo_vogal(tl, c) })
                  - Cardinality({ c \in janelas(tl, 2) :
                                     passo_ditongo(tl, c) })
                  - Cardinality({ c \in janelas(tl, 3) :
                                     passo_tritongo(tl, c) })
                  + Cardinality({ c \in janelas(tl, 2) :
                                     passo_hiato(tl, c) })
        IN  IF \E k \in 1..Len(t) : isalpha(t[k])
            THEN (IF silabas > 1 THEN silabas ELSE 1)
            ELSE 0

\* The characters of the class [a-záàâãéêíóôõúçü] that the model's texts
\* can hold.
classe_de_palavra ==
    { "a", "e", "i", "o", "u", "p", "s", "d",
      "á", "à", "â", "ã", "é", "ê", "í", "ó", "ô", "õ", "ú", "ç", "ü" }

\* The class under re.IGNORECASE: a character matches when its other case
\* is in the class, and the dotless i and the capital I with a dot above
\* match the i of the class.
na_classe(c) ==
    lower_char(c) \in classe_de_palavra \/ c \in { "U+0130", "U+0131" }

\* re.findall of the class repeated: the maximal runs of its characters,
\* from position k on, with the run under way and the runs found so far.
RECURSIVE findall(_, _, _, _)
findall(t, k, palavra, achadas) ==
    IF k > Len(t)
    THEN (IF palavra = <<>> THEN achadas ELSE Append(achadas, palavra))
    ELSE IF na_classe(t[k])
    THEN findall(t, k + 1, Append(palavra, t[k]), achadas)
    ELSE findall(t, k + 1, <<>>,
                 IF palavra = <<>> THEN achadas
                 ELSE Append(achadas, palavra))

\* A diphthong of which neither vowel is í or ú.
simples_ditongo(w, c) ==
    fatia(w, c, c + 2) \in ditongos_das_variantes
        /\ ~(w[c + 2] \in {"í", "ú"} \/ w[c + 1] \in {"í", "ú"})

\* silabas_palavra, for the word as lower-cased.
silabas_palavra(w) ==
    Cardinality({ c \in janelas(w, 1) : passo_vogal(w, c) })
        - Cardinality({ c \in janelas(w, 2) : simples_ditongo(w, c) })
        - Cardinality({ c \in janelas(w, 3) : passo_tritongo(w, c) })

\* The sum over the first n words of max(silabas_palavra, 1).
RECURSIVE soma_palavras(_, _)
soma_palavras(palavras, n) ==
    IF n = 0 THEN 0
    ELSE soma_palavras(palavras, n - 1)
           + (IF silabas_palavra(str_lower(palavras[n])) > 1
              THEN silabas_palavra(str_lower(palavras[n])) ELSE 1)

\* Mutant of contar_silabas_simples: the count of the second counter.
contar_silabas_simples_igual(t) == contar_silabas_original_melhorada(t)

\* contar_silabas_simples as a function of its argument.
contar_silabas_simples(t) ==
    IF texto_vazio(t) THEN 0
    ELSE soma_palavras(findall(t, 1, <<>>, <<>>),
                       Len(findall(t, 1, <<>>, <<>>)))

---------------------------------------------------------------------------
(* The texts the scan is run on.                                           *)

\* All sequences over S of length at most n.
SeqAte(S, n) == UNION { [1..k -> S] : k \in 0..n }

\* Every character of the catalogued pairs and triples, a consonant, a
\* digit and white space.
AlfabetoGrupos ==
    { "a", "e", "i", "o", "u", "ã", "õ", "é", "ó", "í", "ú", "U+0169",
      "p", "1", " " }

\* Letters in both cases, the dotless i, the capital I with a dot above, an
\* accented vowel outside every catalogued pair, punctuation and white
\* space.
AlfabetoCaixa ==
    { "a", "A", "i", "I", "U+0131", "U+0130", "ú", "Ú", "â", "p", "P", ".",
      " " }

Amostras ==
    { <<"s","a","ú","d","e">>, <<"s","a","u","d","e">>,
      <<"S","A","Ú","D","E">>, <<"p","a","i">> } \cup tritongos

Textos ==
    SeqAte(AlfabetoGrupos, MaxLen) \cup SeqAte(AlfabetoCaixa, MaxLen)
        \cup Amostras

---------------------------------------------------------------------------
(* contar_silabas as a state machine: one action per branch of the loop.   *)

\* No value returned yet.
SemRetorno == -1

\* Python's None.
None == [none |-> TRUE]

\* No call of analisar_texto_simples under way.
SemEntrada == [texto |-> "nenhum"]

\* No batch analysis under way, in a session that has loaded nothing.
LoteOcioso ==
    /\ cliques = 0
    /\ modo = "nenhum"
    /\ documentos = <<>>
    /\ etapa = "ocioso"
    /\ proximo = 1
    /\ atual = None
    /\ resultados = <<>>
    /\ erros = <<>>
    /\ temporarios = {}
    /\ session_state = <<>>
    /\ cargas = 0
    /\ tela = None

Init ==
    /\ texto \in Textos
    /\ texto_lower = <<>>
    /\ i = 0
    /\ silabas_total = 0
    /\ pc = "inicio"
    /\ retorno = SemRetorno
    /\ entrada = SemEntrada
    /\ resultado_analise = None
    /\ fase = "ocioso"
    /\ LoteOcioso
    /\ variantes = <<>>

\* The guard, and the initialisation of the scan.
Entrar ==
    /\ pc = "inicio"
    /\ IF texto_vazio(texto)
       THEN /\ pc' = "fim"
            /\ retorno' = 0
            /\ UNCHANGED <<texto_lower, i, silabas_total>>
       ELSE /\ pc' = "laco"
            /\ texto_lower' = str_lower(texto)
            /\ i' = 0
            /\ silabas_total' = 0
            /\ UNCHANGED retorno
    /\ UNCHANGED texto
    /\ UNCHANGED <<vars_analise, vars_lote, variantes>>

\* One iteration of the loop, through branch r.
Passo(r) ==
    /\ pc = "laco"
    /\ i < Len(texto_lower)
    /\ ramo(texto_lower, i) = r
    /\ i' = i + avanco(r)
    /\ silabas_total' = silabas_total + silabas_grupo(r)
    /\ UNCHANGED <<texto, texto_lower, pc, retorno>>
    /\ UNCHANGED <<vars_analise, vars_lote, variantes>>

PassoNaoVogal == Passo("nao_vogal")

PassoTritongo == Passo("tritongo")

PassoHiato == Passo("hiato")

PassoDitongo == Passo("ditongo")

PassoHiatoTonico == Passo("hiato_tonico")

PassoDitongoAssumido == Passo("ditongo_assumido")

PassoVogalIsolada == Passo("vogal_isolada")

PassoVogalFinal == Passo("vogal_final")

\* The loop's exit and the return.
Retornar ==
    /\ pc = "laco"
    /\ ~(i < Len(texto_lower))
    /\ retorno' = valor_retorno(silabas_total, texto)
    /\ pc' = "fim"
    /\ UNCHANGED <<texto, texto_lower, i, silabas_total>>
    /\ UNCHANGED <<vars_analise, vars_lote, variantes>>

Next ==
    \/ Entrar
    \/ PassoNaoVogal
    \/ PassoTritongo
    \/ PassoHiato
    \/ PassoDitongo
    \/ PassoHiatoTonico
    \/ PassoDitongoAssumido
    \/ PassoVogalIsolada
    \/ PassoVogalFinal
    \/ Retornar

Spec == Init /\ [][Next]_vars

\* The call runs on: a step that can be taken is taken.
SpecTermina == Init /\ [][Next]_vars /\ WF_vars(Next)

---------------------------------------------------------------------------
(* The three counters called on one text, in any order.                    *)

InitVariantes ==
    /\ texto \in Textos
    /\ variantes = <<>>
    /\ texto_lower = <<>>
    /\ i = 0
    /\ silabas_total = 0
    /\ pc = "fim"
    /\ retorno = SemRetorno
    /\ entrada = SemEntrada
    /\ resultado_analise = None
    /\ fase = "ocioso"
    /\ LoteOcioso

\* The counter called nome is called on texto and returns valor.
Chamar(nome, valor) ==
    /\ nome \notin DOMAIN variantes
    /\ variantes' = (nome :> valor) @@ variantes
    /\ UNCHANGED <<vars_silabas, vars_analise, vars_lote>>

ChamarContarSilabas ==
    Chamar("contar_silabas", contar_silabas(texto))

ChamarOriginalMelhorada ==
    Chamar("contar_silabas_original_melhorada",
           contar_silabas_original_melhorada(texto))

ChamarSimples ==
    Chamar("contar_silabas_simples", contar_silabas_simples(texto))

NextVariantes ==
    \/ ChamarContarSilabas
    \/ ChamarOriginalMelhorada
    \/ ChamarSimples

SpecVariantes == InitVariantes /\ [][NextVariantes]_vars

---------------------------------------------------------------------------
(* Properties of contar_silabas, checked under Spec.                       *)

tem_letra(t) == \E k \in 1..Len(t) : isalpha(t[k])

saude_com_acento == <<"s","a","ú","d","e">>

saude_sem_acento == <<"s","a","u","d","e">>

pai == <<"p","a","i">>

\* C2: the count returned is 0 exactly when the text holds no alphabetic
\* character (empty, blank, digits, punctuation), and a text with at least
\* one alphabetic character, with a vowel or without, returns at least 1.
C2_ZeroSemLetras ==
    pc = "fim" =>
        /\ (retorno = 0) <=> ~tem_letra(texto)
        /\ tem_letra(texto) => retorno >= 1

\* C2's case: a text with a letter and no vowel has been counted as 1.
C2_Witness ==
    /\ pc = "fim"
    /\ tem_letra(texto)
    /\ \A k \in 1..Len(texto) : lower_char(texto[k]) \notin vogais
    /\ retorno = 1

\* Upper-casing the character and lower-casing it again gives its lower
\* case: true of the ASCII and Portuguese letters, false of the dotless i.
caixa_estavel(c) == lower_char(upper_char(c)) = lower_char(c)

\* C5 as stated: for every text the count equals the count of the
\* upper-cased text, and the count of the lower-cased text.
C5_Original ==
    pc = "fim" =>
        /\ retorno = contar_silabas(str_upper(texto))
        /\ retorno = contar_silabas(str_lower(texto))

\* C5 amended: for every text whose characters keep their lower case through
\* upper-casing, the count equals the count of the upper-cased text; and
\* for every text the count equals the count of the lower-cased text.
C5_CaixaEstavel ==
    pc = "fim" =>
        /\ (\A k \in 1..Len(texto) : caixa_estavel(texto[k]))
                => retorno = contar_silabas(str_upper(texto))
        /\ retorno = contar_silabas([k \in 1..Len(texto) |-> lower_char(texto[k])])

\* C5's case: a text with lower-case vowels that upper-casing changes has
\* been counted.
C5_Witness ==
    /\ pc = "fim"
    /\ \A k \in 1..Len(texto) : caixa_estavel(texto[k])
    /\ str_upper(texto) # texto
    /\ retorno > 1
    /\ retorno = contar_silabas(str_upper(texto))

\* The cursor is on a vowel and the three characters from it are a
\* catalogued triphthong.
em_tritongo ==
    /\ pc = "laco"
    /\ i + 2 < Len(texto_lower)
    /\ fatia(texto_lower, i, i + 3) \in tritongos

\* The cursor is on a vowel that starts no catalogued triphthong and has a
\* character after it.
em_par ==
    /\ pc = "laco"
    /\ i + 1 < Len(texto_lower)
    /\ texto_lower[i + 1] \in vogais
    /\ ~em_tritongo

\* C6: a text that is exactly a catalogued triphthong counts 1; and a
\* catalogued triphthong at the cursor is consumed whole, as one syllable,
\* with the cursor moved by 3.
C6_Tritongo ==
    /\ [](pc = "fim" /\ texto \in tritongos => retorno = 1)
    /\ [][em_tritongo =>
            i' = i + 3 /\ silabas_total' = silabas_total + 1]_vars

\* C6's case: a text that is a triphthong, consumed in one iteration.
C6_Witness ==
    /\ pc = "laco"
    /\ texto \in tritongos
    /\ i = 3
    /\ silabas_total = 1

\* C7: a pair of the hiatus catalogue under the cursor counts 2 and moves
\* the cursor by 2, whether or not it is a catalogued diphthong; and the
\* accented "saúde" counts more than the unaccented "saude".
C7_Hiato ==
    /\ [][em_par /\ fatia(texto_lower, i, i + 2) \in hiatos =>
            i' = i + 2 /\ silabas_total' = silabas_total + 2]_vars
    /\ [](pc = "fim" /\ texto = saude_com_acento =>
            retorno > contar_silabas(saude_sem_acento))

\* C7's case: the pair "aú" of "saúde" consumed as two syllables.
C7_Witness ==
    /\ pc = "laco"
    /\ texto = saude_com_acento
    /\ i = 3
    /\ silabas_total = 2

\* C8: a catalogued diphthong under the cursor, not in the hiatus catalogue
\* and not the start of a catalogued triphthong, counts 1 and moves the
\* cursor by 2; "pai" counts 1 for "ai" and nothing for "p".
C8_Ditongo ==
    /\ [][/\ em_par
          /\ fatia(texto_lower, i, i + 2) \in ditongos
          /\ fatia(texto_lower, i, i + 2) \notin hiatos
          => i' = i + 2 /\ silabas_total' = silabas_total + 1]_vars
    /\ [](texto = pai /\ pc = "laco" /\ i = 1 => silabas_total = 0)
    /\ [](texto = pai /\ pc = "fim" => retorno = 1)

\* C8's case: the pair "ai" of "pai" consumed as one syllable.
C8_Witness ==
    /\ pc = "laco"
    /\ texto = pai
    /\ i = 3
    /\ silabas_total = 1

\* C11: the call returns a count on every text; until then the cursor stays
\* within 0..len(texto_lower), every index the loop body reads is below
\* len(texto_lower), every iteration moves the cursor by 1, 2 or 3, and the
\* loop is left exactly when the cursor equals len(texto_lower).
C11_Terminacao ==
    /\ <>(pc = "fim")
    /\ [](pc = "fim" => retorno \in Nat)
    /\ [](pc = "laco" => i >= 0 /\ i <= Len(texto_lower))
    /\ [](pc = "laco" /\ i < Len(texto_lower) =>
            \A k \in indices_lidos(texto_lower, i) :
                k >= 0 /\ k < Len(texto_lower))
    /\ [][pc = "laco" /\ pc' = "laco" => i' - i \in {1, 2, 3}]_vars
    /\ [][pc = "laco" => (pc' = "fim" <=> i = Len(texto_lower))]_vars

\* C11's case: a scan has ended with the cursor at the end of a lower-cased
\* text that is longer than the text given, after counting two syllables.
C11_Witness ==
    /\ pc = "fim"
    /\ i = Len(texto_lower)
    /\ i > Len(texto)
    /\ silabas_total >= 2

\* The cursor is on a vowel with a vowel after it, and the pair is in no
\* catalogue and starts no catalogued triphthong.
em_par_nao_catalogado ==
    /\ em_par
    /\ texto_lower[i + 2] \in vogais
    /\ fatia(texto_lower, i, i + 2) \notin hiatos
    /\ fatia(texto_lower, i, i + 2) \notin ditongos

\* The cursor is on a vowel with a character that is no vowel after it, or
\* with nothing after it.
em_vogal_so ==
    /\ pc = "laco"
    /\ i < Len(texto_lower)
    /\ texto_lower[i + 1] \in vogais
    /\ i + 1 < Len(texto_lower) => texto_lower[i + 2] \notin vogais

\* C12: an uncatalogued pair of vowels under the cursor moves the cursor by
\* 2 and counts 2 when one of the two is í or ú, and 1 otherwise; a vowel
\* followed by no vowel, or ending the text, counts 1 and moves the cursor
\* by 1.
C12_Desempate ==
    /\ [][em_par_nao_catalogado =>
            /\ i' = i + 2
            /\ silabas_total' = silabas_total +
                 (IF texto_lower[i + 1] \in {"í", "ú"}
                     \/ texto_lower[i + 2] \in {"í", "ú"}
                  THEN 2 ELSE 1)]_vars
    /\ [][em_vogal_so =>
            i' = i + 1 /\ silabas_total' = silabas_total + 1]_vars

\* C12's case: the uncatalogued pair "ía" consumed as two syllables.
C12_Witness ==
    /\ pc = "laco"
    /\ texto_lower = <<"í", "a">>
    /\ i = 2
    /\ silabas_total = 2

\* The number of characters of t that are in the vowel set.
n_vogais(t) == Cardinality({ k \in 1..Len(t) : t[k] \in vogais })

\* C15: when the text, as lower-cased for the scan, holds v >= 1 characters
\* of the vowel set, the count returned is at most v and at least v / 3
\* rounded up; and every iteration of the loop adds no more syllables than
\* the vowel characters it moves the cursor over, which are at most three
\* for each syllable added.
C15_Limites ==
    /\ [](pc = "fim" /\ n_vogais(texto_lower) >= 1 =>
            /\ retorno <= n_vogais(texto_lower)
            /\ 3 * retorno >= n_vogais(texto_lower))
    /\ [][pc = "laco" /\ pc' = "laco" =>
            /\ silabas_total' - silabas_total
                  <= n_vogais(fatia(texto_lower, i, i'))
            /\ n_vogais(fatia(texto_lower, i, i'))
                  <= 3 * (silabas_total' - silabas_total)]_vars

\* C15's case: a text of three vowel characters has been counted as one
\* syllable, the least the bounds allow.
C15_Witness ==
    /\ pc = "fim"
    /\ n_vogais(texto_lower) = 3
    /\ retorno = 1

---------------------------------------------------------------------------
(* Properties of the three counters, checked under SpecVariantes.          *)

todas_retornaram ==
    DOMAIN variantes =
        { "contar_silabas", "contar_silabas_original_melhorada",
          "contar_silabas_simples" }

\* The three counts returned are different from one another.
tres_contagens ==
    /\ variantes["contar_silabas"]
         # variantes["contar_silabas_original_melhorada"]
    /\ variantes["contar_silabas"] # variantes["contar_silabas_simples"]
    /\ variantes["contar_silabas_original_melhorada"]
         # variantes["contar_silabas_simples"]

\* C13: the three counters are not equivalent.  On the vowel run "aee" they
\* return 2, 4 and 3; on "aia", whose diphthong windows "ai" and "ia"
\* overlap, contar_silabas returns 2 and the other two 1; on "saúde", with
\* the hiatus "aú", contar_silabas_original_melhorada returns 4 and the
\* other two 3.
C13_Divergem ==
    todas_retornaram =>
        /\ texto = <<"a","e","e">> =>
              /\ tres_contagens
              /\ variantes["contar_silabas"] = 2
              /\ variantes["contar_silabas_original_melhorada"] = 4
              /\ variantes["contar_silabas_simples"] = 3
        /\ texto = <<"a","i","a">> =>
              /\ variantes["contar_silabas"] = 2
              /\ variantes["contar_silabas_original_melhorada"] = 1
              /\ variantes["contar_silabas_simples"] = 1
        /\ texto = saude_com_acento =>
              /\ variantes["contar_silabas"] = 3
              /\ variantes["contar_silabas_original_melhorada"] = 4
              /\ variantes["contar_silabas_simples"] = 3

\* C13's case: a text on which the three counters have returned three
\* different counts.
C13_Witness ==
    /\ todas_retornaram
    /\ tres_contagens

---------------------------------------------------------------------------
(* Python floats.                                                          *)
(*                                                                         *)
(* A float is an IEEE 754 binary64 number; every operation rounds its      *)
(* exact result to the nearest such number, ties to the even mantissa.     *)
(* The model computes with the numbers themselves: a finite float is       *)
(* (-1)^s * m * 2^e with m = 0 or 2^52 <= m < 2^53, and m is held as a     *)
(* natural number of arbitrary size, a little-endian sequence of base-2^15 *)
(* digits without leading zeros (so that no step leaves 32 bits).          *)
(* Infinities, NaN, subnormals and the sign of zero do not arise from the  *)
(* counts of the model and are left out.  The integers a float is          *)
(* multiplied or divided by are below 2^15.                                *)

Base == 2 ^ 15

BitsDoDigito == 15

\* The bits of a binary64 mantissa.
Mantissa == 53

RECURSIVE bn_norm(_)
bn_norm(a) ==
    IF a = <<>> THEN a
    ELSE IF a[Len(a)] = 0 THEN bn_norm(SubSeq(a, 1, Len(a) - 1))
    ELSE a

RECURSIVE bn_de_int(_)
bn_de_int(n) ==
    IF n = 0 THEN <<>> ELSE <<n % Base>> \o bn_de_int(n \div Base)

RECURSIVE bn_para_int(_)
bn_para_int(a) ==
    IF a = <<>> THEN 0 ELSE a[1] + Base * bn_para_int(Tail(a))

\* a * k + c, digit by digit.
RECURSIVE bn_mul_c(_, _, _)
bn_mul_c(a, k, c) ==
    IF a = <<>> THEN bn_de_int(c)
    ELSE <<(a[1] * k + c) % Base>>
            \o bn_mul_c(Tail(a), k, (a[1] * k + c) \div Base)

bn_mul_peq(a, k) == bn_norm(bn_mul_c(a, k, 0))

\* Division by d from the top digit a[k] down, r the running remainder.
RECURSIVE bn_div_it(_, _, _, _, _)
bn_div_it(a, d, k, r, q) ==
    IF k = 0 THEN [q |-> bn_norm(q), r |-> r]
    ELSE bn_div_it(a, d, k - 1, (r * Base + a[k]) % d,
                   <<(r * Base + a[k]) \div d>> \o q)

bn_div_peq(a, d) == bn_div_it(a, d, Len(a), 0, <<>>)

RECURSIVE bn_soma_c(_, _, _)
bn_soma_c(a, b, c) ==
    IF a = <<>> /\ b = <<>> THEN (IF c = 0 THEN <<>> ELSE <<c>>)
    ELSE LET x == IF a = <<>> THEN 0 ELSE a[1]
             y == IF b = <<>> THEN 0 ELSE b[1]
         IN  <<(x + y + c) % Base>>
                \o bn_soma_c(IF a = <<>> THEN a ELSE Tail(a),
                             IF b = <<>> THEN b ELSE Tail(b),
                             (x + y + c) \div Base)

bn_soma(a, b) == bn_soma_c(a, b, 0)

\* a - b - c for a >= b + c.
RECURSIVE bn_sub_c(_, _, _)
bn_sub_c(a, b, c) ==
    IF a = <<>> THEN <<>>
    ELSE LET y == IF b = <<>> THEN 0 ELSE b[1]
             v == a[1] - y - c
         IN  <<v % Base>>
                \o bn_sub_c(Tail(a), IF b = <<>> THEN b ELSE Tail(b),
                            IF v < 0 THEN 1 ELSE 0)

bn_sub(a, b) == bn_norm(bn_sub_c(a, b, 0))

\* a < b, comparing from digit k down (equal lengths).
RECURSIVE bn_menor_it(_, _, _)
bn_menor_it(a, b, k) ==
    IF k = 0 THEN FALSE
    ELSE IF a[k] # b[k] THEN a[k] < b[k]
    ELSE bn_menor_it(a, b, k - 1)

bn_menor(a, b) ==
    IF Len(a) # Len(b) THEN Len(a) < Len(b) ELSE bn_menor_it(a, b, Len(a))

\* The number of bits of a.
bn_bits(a) ==
    IF a = <<>> THEN 0
    ELSE BitsDoDigito * (Len(a) - 1)
            + (CHOOSE n \in 1..BitsDoDigito :
                    2 ^ (n - 1) <= a[Len(a)] /\ a[Len(a)] < 2 ^ n)

\* a * 2^n.
bn_esq(a, n) ==
    IF a = <<>> THEN a
    ELSE [k \in 1..(n \div BitsDoDigito) |-> 0]
            \o bn_mul_peq(a, 2 ^ (n % BitsDoDigito))

\* floor(a / 2^n).
bn_dir(a, n) ==
    IF n \div BitsDoDigito >= Len(a) THEN <<>>
    ELSE bn_div_peq(SubSeq(a, n \div BitsDoDigito + 1, Len(a)),
                    2 ^ (n % BitsDoDigito)).q

\* Bit n of a (bit 0 is the lowest).
bn_bit(a, n) ==
    IF n \div BitsDoDigito >= Len(a) THEN 0
    ELSE (a[n \div BitsDoDigito + 1] \div 2 ^ (n % BitsDoDigito)) % 2

\* The n lowest bits of a are all 0.
bn_baixos_zero(a, n) ==
    /\ \A k \in 1..(n \div BitsDoDigito) : k > Len(a) \/ a[k] = 0
    /\ \/ n \div BitsDoDigito >= Len(a)
       \/ a[n \div BitsDoDigito + 1] % (2 ^ (n % BitsDoDigito)) = 0

bn_impar(a) == bn_bit(a, 0) = 1

fl_zero == [s |-> 0, m |-> <<>>, e |-> 0]

\* The float nearest to (-1)^s * (m + f) * 2^e, where 0 <= f < 1 and resto
\* says that f > 0; when f > 0, m has more than Mantissa + 1 bits.
fl_arred(s, m, e, resto) ==
    LET k  == bn_bits(m) - Mantissa
        q  == bn_dir(m, k)
        meio == bn_bit(m, k - 1) = 1
        abaixo == resto \/ ~bn_baixos_zero(m, k - 1)
        q1 == IF meio /\ (abaixo \/ bn_impar(q))
              THEN bn_soma(q, <<1>>) ELSE q
    IN  IF m = <<>> THEN fl_zero
        ELSE IF k <= 0
        THEN [s |-> s, m |-> bn_esq(m, 0 - k), e |-> e + k]
        ELSE IF bn_bits(q1) > Mantissa
        THEN [s |-> s, m |-> bn_dir(q1, 1), e |-> e + k + 1]
        ELSE [s |-> s, m |-> q1, e |-> e + k]

\* float(n) for an integer n.
fl_de_int(n) ==
    IF n < 0 THEN fl_arred(1, bn_de_int(-n), 0, FALSE)
    ELSE fl_arred(0, bn_de_int(n), 0, FALSE)

fl_neg(x) == IF x.m = <<>> THEN x ELSE [x EXCEPT !.s = 1 - x.s]

\* x * n for a float x and an integer n >= 0.
fl_mul_int(x, n) == fl_arred(x.s, bn_mul_peq(x.m, n), x.e, FALSE)

\* Extra bits of the dividend, so that the quotient has its rounding bits.
BitsDeGuarda == 30

\* x / n for a float x and an integer n > 0.
fl_div_int(x, n) ==
    LET d == bn_div_peq(bn_esq(x.m, BitsDeGuarda), n)
    IN  fl_arred(x.s, d.q, x.e - BitsDeGuarda, d.r # 0)

\* a / b for integers a and b > 0 (true division), and the value of a
\* decimal literal a/b.
fl_razao(a, b) == fl_div_int(fl_de_int(a), b)

\* x + y.
fl_soma(x, y) ==
    IF x.m = <<>> THEN y
    ELSE IF y.m = <<>> THEN x
    ELSE LET e  == IF x.e < y.e THEN x.e ELSE y.e
             mx == bn_esq(x.m, x.e - e)
             my == bn_esq(y.m, y.e - e)
         IN  IF x.s = y.s THEN fl_arred(x.s, bn_soma(mx, my), e, FALSE)
             ELSE IF bn_menor(mx, my)
                  THEN fl_arred(y.s, bn_sub(my, mx), e, FALSE)
                  ELSE fl_arred(x.s, bn_sub(mx, my), e, FALSE)

fl_sub(x, y) == fl_soma(x, fl_neg(y))

\* x > y.
fl_maior(x, y) ==
    LET d == fl_sub(x, y) IN d.m # <<>> /\ d.s = 0

\* round(x * 10^casas) to an integer, ties to even, for casas in {0, 1}:
\* round(x, 1) is that many tenths, round(x, 0) that many units.
fl_round(x, casas) ==
    IF x.m = <<>> THEN 0
    ELSE LET n == bn_mul_peq(x.m, 10 ^ casas)
             k == 0 - x.e
             q == IF k > 0 THEN bn_dir(n, k) ELSE bn_esq(n, x.e)
             meio == k > 0 /\ bn_bit(n, k - 1) = 1
             abaixo == k > 1 /\ ~bn_baixos_zero(n, k - 1)
             v == bn_para_int(q)
                    + (IF meio /\ (abaixo \/ bn_impar(q)) THEN 1 ELSE 0)
         IN  IF x.s = 1 THEN 0 - v ELSE v

---------------------------------------------------------------------------
(* analisar_texto_simples: the indices.                                    *)

\* The decimal literals of the formulas: each is the float nearest to it.
lit_1_04 == fl_razao(104, 100)

lit_0_36 == fl_razao(36, 100)

lit_10_4 == fl_razao(104, 10)

lit_0_49 == fl_razao(49, 100)

lit_4_6 == fl_razao(46, 10)

lit_0_44 == fl_razao(44, 100)

lit_5_4 == fl_razao(54, 10)

\* The unrounded indices, as floats, for palavras > 0 and sentencas > 0.
\* Each is evaluated left to right, * and / before + and -.
indice_flesch(letras, silabas, palavras, sentencas, complexas) ==
    fl_sub(fl_sub(fl_de_int(226),
                  fl_div_int(fl_mul_int(lit_1_04, palavras), sentencas)),
           fl_razao(72 * silabas, palavras))

indice_fleschKincaid(letras, silabas, palavras, sentencas, complexas) ==
    fl_sub(fl_soma(fl_div_int(fl_mul_int(lit_0_36, palavras), sentencas),
                   fl_div_int(fl_mul_int(lit_10_4, silabas), palavras)),
           fl_de_int(18))

indice_gunningFog(letras, silabas, palavras, sentencas, complexas) ==
    fl_soma(fl_div_int(fl_mul_int(lit_0_49, palavras), sentencas),
            fl_razao(19 * complexas, palavras))

indice_ari(letras, silabas, palavras, sentencas, complexas) ==
    fl_sub(fl_soma(fl_div_int(fl_mul_int(lit_4_6, letras), palavras),
                   fl_div_int(fl_mul_int(lit_0_44, palavras), sentencas)),
           fl_de_int(20))

indice_cli(letras, silabas, palavras, sentencas, complexas) ==
    fl_sub(fl_sub(fl_div_int(fl_mul_int(lit_5_4, letras), palavras),
                  fl_razao(21 * sentencas, palavras)),
           fl_de_int(14))

\* Mutant of indice_gulpease: the parentheses of the numerator are lost, so
\* only 10 * letras is divided by palavras.
indice_gulpease_solto(letras, silabas, palavras, sentencas, complexas) ==
    fl_sub(fl_soma(fl_de_int(89), fl_de_int(300 * sentencas)),
           fl_razao(10 * letras, palavras))

indice_gulpease(letras, silabas, palavras, sentencas, complexas) ==
    fl_soma(fl_de_int(89),
            fl_razao(300 * sentencas - 10 * letras, palavras))

\* Mutant of indice_resultado: the mean is taken of the four indices as
\* rounded to one decimal place.
indice_resultado_de_arredondados(fleschKincaid, gunningFog, ari, cli) ==
    fl_div_int(
        fl_soma(fl_soma(fl_soma(fl_razao(fl_round(fleschKincaid, 1), 10),
                                fl_razao(fl_round(gunningFog, 1), 10)),
                        fl_razao(fl_round(ari, 1), 10)),
                fl_razao(fl_round(cli, 1), 10)),
        4)

\* resultado: the mean of four unrounded indices.
indice_resultado(fleschKincaid, gunningFog, ari, cli) ==
    fl_div_int(fl_soma(fl_soma(fl_soma(fleschKincaid, gunningFog), ari),
                       cli),
               4)

---------------------------------------------------------------------------
(* analisar_texto_simples.                                                 *)
(*                                                                         *)
(* The text reaches the function through what the code reads of it:        *)
(* whether it is empty or blank, whether one of the counters raises, and   *)
(* the five counts.  contar_letras, contar_palavras, contar_frases and     *)
(* contar_palavras_complexas are not part of these sources: their values   *)
(* are inputs.                                                             *)

Contagens(letras, silabas, palavras, sentencas, complexas) ==
    [texto |-> "presente", contadores |-> "ok",
     letras |-> letras, silabas |-> silabas, palavras |-> palavras,
     sentencas |-> sentencas, complexas |-> complexas]

\* A text that is empty or all white space.
EntradaEmBranco ==
    [Contagens(0, 0, 0, 0, 0) EXCEPT !.texto = "em_branco"]

\* A text on which one of the counters raises an exception.
EntradaComExcecao ==
    [Contagens(0, 0, 0, 0, 0) EXCEPT !.contadores = "excecao"]

\* The spec's end-to-end scenario, its failure scenario, and two texts whose
\* flesch lies just above 70 and just above 50.
AmostraCompleta == Contagens(480, 210, 100, 8, 15)

AmostraSemPalavras == Contagens(50, 20, 0, 2, 0)

AmostraAcimaDe70 == Contagens(110, 46, 23, 2, 1)

AmostraAcimaDe50 == Contagens(60, 34, 14, 13, 1)

Entradas ==
    { Contagens(l, sy, w, f, c) :
        l \in 0..MaxContagem, sy \in 0..MaxContagem, w \in 0..MaxContagem,
        f \in 0..MaxContagem, c \in 0..MaxContagem }
    \cup { EntradaEmBranco, EntradaComExcecao, AmostraCompleta,
           AmostraSemPalavras, AmostraAcimaDe70, AmostraAcimaDe50 }

\* The guard of the divisions.
divisao_por_zero(en) == en.palavras = 0 \/ en.sentencas = 0

\* The dictionary returned.  The six indices rounded to one decimal place
\* are held as their number of tenths, resultado as its number of units.
resultado_formatado(en) ==
    LET fleschKincaid == indice_fleschKincaid(en.letras, en.silabas,
                            en.palavras, en.sentencas, en.complexas)
        gunningFog == indice_gunningFog(en.letras, en.silabas,
                            en.palavras, en.sentencas, en.complexas)
        ari == indice_ari(en.letras, en.silabas,
                            en.palavras, en.sentencas, en.complexas)
        cli == indice_cli(en.letras, en.silabas,
                            en.palavras, en.sentencas, en.complexas)
    IN  [letras |-> en.letras,
         silabas |-> en.silabas,
         palavras |-> en.palavras,
         sentencas |-> en.sentencas,
         complexas |-> en.complexas,
         flesch |-> fl_round(indice_flesch(en.letras, en.silabas,
                        en.palavras, en.sentencas, en.complexas), 1),
         fleschKincaid |-> fl_round(fleschKincaid, 1),
         gunningFog |-> fl_round(gunningFog, 1),
         ari |-> fl_round(ari, 1),
         cli |-> fl_round(cli, 1),
         gulpease |-> fl_round(indice_gulpease(en.letras, en.silabas,
                        en.palavras, en.sentencas, en.complexas), 1),
         resultado |-> fl_round(indice_resultado(fleschKincaid, gunningFog,
                                                 ari, cli), 0)]

\* Mutant of analisar_texto_simples: with a zero denominator the counts are
\* returned and the indices left at 0.
analisar_texto_simples_parcial(en) ==
    IF en.texto = "em_branco" \/ en.contadores = "excecao" THEN None
    ELSE IF divisao_por_zero(en)
    THEN [letras |-> en.letras, silabas |-> en.silabas,
          palavras |-> en.palavras, sentencas |-> en.sentencas,
          complexas |-> en.complexas, flesch |-> 0, fleschKincaid |-> 0,
          gunningFog |-> 0, ari |-> 0, cli |-> 0, gulpease |-> 0,
          resultado |-> 0]
    ELSE resultado_formatado(en)

\* analisar_texto_simples as a function of what it reads of the text.
analisar_texto_simples(en) ==
    IF en.texto = "em_branco" THEN None
    ELSE IF en.contadores = "excecao" THEN None
    ELSE IF divisao_por_zero(en) THEN None
    ELSE resultado_formatado(en)

InitAnalise ==
    /\ entrada \in Entradas
    /\ resultado_analise = None
    /\ fase = "chamada"
    /\ texto = <<>>
    /\ texto_lower = <<>>
    /\ i = 0
    /\ silabas_total = 0
    /\ pc = "fim"
    /\ retorno = SemRetorno
    /\ LoteOcioso
    /\ variantes = <<>>

\* The function returns what analisar_texto_simples gives.
Devolver ==
    /\ resultado_analise' = analisar_texto_simples(entrada)
    /\ fase' = "retornou"
    /\ UNCHANGED entrada
    /\ UNCHANGED <<vars_silabas, vars_lote, variantes>>

\* if not texto or not texto.strip(): return None
RetornarTextoEmBranco ==
    /\ fase = "chamada"
    /\ entrada.texto = "em_branco"
    /\ Devolver

\* except Exception: return None
RetornarAposExcecao ==
    /\ fase = "chamada"
    /\ entrada.texto = "presente"
    /\ entrada.contadores = "excecao"
    /\ Devolver

\* if palavras == 0 or sentencas == 0: return None
RetornarDivisaoPorZero ==
    /\ fase = "chamada"
    /\ entrada.texto = "presente"
    /\ entrada.contadores = "ok"
    /\ divisao_por_zero(entrada)
    /\ Devolver

\* return resultado_analise
RetornarResultado ==
    /\ fase = "chamada"
    /\ entrada.texto = "presente"
    /\ entrada.contadores = "ok"
    /\ ~divisao_por_zero(entrada)
    /\ Devolver

NextAnalise ==
    \/ RetornarTextoEmBranco
    \/ RetornarAposExcecao
    \/ RetornarDivisaoPorZero
    \/ RetornarResultado

SpecAnalise == InitAnalise /\ [][NextAnalise]_vars

---------------------------------------------------------------------------
(* Properties of analisar_texto_simples, checked under SpecAnalise.        *)

\* The call under way had a text with content, counters that returned, and
\* a zero among its two denominators.
divisao_zero_na_entrada ==
    /\ entrada.texto = "presente"
    /\ entrada.contadores = "ok"
    /\ entrada.palavras = 0 \/ entrada.sentencas = 0

\* The call under way had a text with content, counters that returned, and
\* no zero among its two denominators.
entrada_valida ==
    /\ entrada.texto = "presente"
    /\ entrada.contadores = "ok"
    /\ entrada.palavras > 0
    /\ entrada.sentencas > 0

\* The fields of a result that hold an index.
CamposDeIndice ==
    { "flesch", "fleschKincaid", "gunningFog", "ari", "cli", "gulpease",
      "resultado" }

\* C1: when palavras == 0 or sentencas == 0 the function returns None, and
\* so a value with no index field at all: nothing partial, nothing infinite.
C1_SemResultado ==
    fase = "retornou" /\ divisao_zero_na_entrada =>
        /\ resultado_analise = None
        /\ DOMAIN resultado_analise \cap CamposDeIndice = {}

\* C1's case: the spec's failure scenario (palavras = 0, sentencas = 2) has
\* returned None.
C1_Witness ==
    /\ fase = "retornou"
    /\ entrada = AmostraSemPalavras
    /\ entrada.palavras = 0
    /\ entrada.sentencas = 2
    /\ resultado_analise = None

\* The table's formulas as exact fractions over the denominator
\* 100 * sentencas * palavras (the mean of four: over four times that).
Denominador(en) == 100 * en.sentencas * en.palavras

NumFlesch(en) ==
    226 * Denominador(en) - 104 * en.palavras * en.palavras
        - 72 * en.silabas * 100 * en.sentencas

NumFleschKincaid(en) ==
    36 * en.palavras * en.palavras + 1040 * en.silabas * en.sentencas
        - 18 * Denominador(en)

NumGunningFog(en) ==
    49 * en.palavras * en.palavras + 19 * en.complexas * 100 * en.sentencas

NumAri(en) ==
    460 * en.letras * en.sentencas + 44 * en.palavras * en.palavras
        - 20 * Denominador(en)

NumCli(en) ==
    540 * en.letras * en.sentencas - 21 * en.sentencas * 100 * en.sentencas
        - 14 * Denominador(en)

NumGulpease(en) ==
    89 * Denominador(en)
        + (300 * en.sentencas - 10 * en.letras) * 100 * en.sentencas

NumMedia(en) ==
    NumFleschKincaid(en) + NumGunningFog(en) + NumAri(en) + NumCli(en)

Abs(n) == IF n < 0 THEN 0 - n ELSE n

\* k / escala is a value nearest to num / den among the multiples of
\* 1 / escala (at a tie, either neighbour).
Arredonda(k, escala, num, den) == 2 * Abs(escala * num - k * den) <= den

\* C3: for palavras > 0 and sentencas > 0 each of the six indices returned
\* is its table formula, evaluated on the counts, rounded to one decimal
\* place; the end-to-end scenario gives 61.8, 8.3, 9.0, 7.6, 10.2 and 9.
C3_Formulas ==
    fase = "retornou" /\ entrada_valida =>
        /\ resultado_analise # None
        /\ Arredonda(resultado_analise.flesch, 10,
                     NumFlesch(entrada), Denominador(entrada))
        /\ Arredonda(resultado_analise.fleschKincaid, 10,
                     NumFleschKincaid(entrada), Denominador(entrada))
        /\ Arredonda(resultado_analise.gunningFog, 10,
                     NumGunningFog(entrada), Denominador(entrada))
        /\ Arredonda(resultado_analise.ari, 10,
                     NumAri(entrada), Denominador(entrada))
        /\ Arredonda(resultado_analise.cli, 10,
                     NumCli(entrada), Denominador(entrada))
        /\ Arredonda(resultado_analise.gulpease, 10,
                     NumGulpease(entrada), Denominador(entrada))
        /\ entrada = AmostraCompleta =>
                /\ resultado_analise.flesch = 618
                /\ resultado_analise.fleschKincaid = 83
                /\ resultado_analise.gunningFog = 90
                /\ resultado_analise.ari = 76
                /\ resultado_analise.cli = 102
                /\ resultado_analise.resultado = 9

\* C3's case: the end-to-end scenario has been analysed.
C3_Witness ==
    /\ fase = "retornou"
    /\ entrada = AmostraCompleta
    /\ resultado_analise # None
    /\ resultado_analise.flesch = 618

\* C4: the composite is the mean of the four unrounded indices rounded to
\* the nearest whole number.
C4_Composto ==
    fase = "retornou" /\ entrada_valida =>
        /\ resultado_analise # None
        /\ Arredonda(resultado_analise.resultado, 1,
                     NumMedia(entrada), 4 * Denominador(entrada))

\* C4's case: the four indices as rounded to one decimal place have a mean
\* that lies halfway between two whole numbers, and the composite returned
\* is the odd one of the two, which rounding that mean would not give.
C4_Witness ==
    /\ fase = "retornou"
    /\ entrada_valida
    /\ resultado_analise # None
    /\ (resultado_analise.fleschKincaid + resultado_analise.gunningFog
          + resultado_analise.ari + resultado_analise.cli) % 40 = 20
    /\ resultado_analise.resultado % 2 = 1

---------------------------------------------------------------------------
\* The two batch analyses of the page: the files uploaded (aba_arquivos) and
\* the rows of a column of a spreadsheet (aba_planilhas).  A document is
\* the record of where its text comes from and of what analisar_texto_simples
\* reads of the text; it is named by its position in the batch.

\* Texts of one with no sentence, of an easy one and of a hard one.
AmostraSemSentencas == Contagens(10, 4, 3, 0, 1)

AmostraFacil == Contagens(20, 6, 5, 1, 0)

AmostraDificil == Contagens(3, 3, 1, 1, 1)

EntradasDoLote ==
    { EntradaEmBranco, EntradaComExcecao, AmostraSemPalavras,
      AmostraSemSentencas, AmostraCompleta, AmostraAcimaDe70,
      AmostraAcimaDe50, AmostraFacil, AmostraDificil }

\* An uploaded file: extrair_texto_arquivo returns its text or raises.
Arquivos ==
    { [origem |-> "excecao", entrada |-> SemEntrada] }
    \cup { [origem |-> "extraido", entrada |-> en] : en \in EntradasDoLote }

\* A row of the column: the cell is missing (NaN, or the text 'nan') or
\* holds a text.
Linhas ==
    { [origem |-> "ausente", entrada |-> SemEntrada] }
    \cup { [origem |-> "celula", entrada |-> en] : en \in EntradasDoLote }

\* The outcomes of carregar_banco_palavras().
Cargas == { "banco", "excecao" }

\* Mutant of carregar_banco: the empty bank of the fallback is taken for no
\* bank, and the loader is called again.
carregar_banco_sem_fallback(estado, carga) ==
    IF "banco_palavras" \in DOMAIN estado
         /\ estado["banco_palavras"] # "set()"
    THEN estado
    ELSE IF carga = "banco" THEN [banco_palavras |-> "banco"]
    ELSE [banco_palavras |-> "set()"]

\* carregar_banco: the session state after the call, when the loader would
\* end as carga.
carregar_banco(estado, carga) ==
    IF "banco_palavras" \in DOMAIN estado THEN estado
    ELSE IF carga = "banco" THEN ("banco_palavras" :> "banco") @@ estado
    ELSE ("banco_palavras" :> "set()") @@ estado

\* The calls of carregar_banco_palavras after a call of carregar_banco.
cargas_apos(estado, n) ==
    IF "banco_palavras" \in DOMAIN estado THEN n ELSE n + 1

\* The end of analisar_texto_arquivo, on the file at position d: the pair
\* returned once analisar_texto_simples has given res.
retorno_do_arquivo(res, d) ==
    IF res # None
    THEN [resultado |-> ("arquivo" :> d) @@ res, status |-> "Sucesso"]
    ELSE [resultado |-> None, status |-> "Texto muito curto"]

\* analisar_texto_arquivo on the file at position d: the pair returned.
analisar_texto_arquivo(doc, d) ==
    IF doc.origem = "excecao"
    THEN [resultado |-> None, status |-> "Erro"]
    ELSE IF doc.entrada.texto = "em_branco"
    THEN [resultado |-> None, status |-> "Texto vazio"]
    ELSE retorno_do_arquivo(analisar_texto_simples(doc.entrada), d)

\* The temporary copy of the file is left on disk by analisar_texto_arquivo:
\* os.unlink is not reached when extrair_texto_arquivo raises.
temporario_deixado(doc) == doc.origem = "excecao"

\* The condition under which a row is analysed at all.
linha_com_texto(doc) ==
    doc.origem = "celula" /\ doc.entrada.texto # "em_branco"

\* The row appended for the row at position d, of result res (its preview
\* of the text says nothing more than d does).
resultado_linha(res, d) == ("linha" :> d) @@ res

\* The sum of a column of floats, from the first row to the n-th.
RECURSIVE soma_coluna(_, _)
soma_coluna(coluna, n) ==
    IF n = 0 THEN fl_zero
    ELSE fl_soma(soma_coluna(coluna, n - 1), coluna[n])

\* The mean of a column of floats.
media(coluna) == fl_div_int(soma_coluna(coluna, Len(coluna)), Len(coluna))

\* The sum of a column of integers.
RECURSIVE soma_inteiros(_, _)
soma_inteiros(coluna, n) ==
    IF n = 0 THEN 0 ELSE soma_inteiros(coluna, n - 1) + coluna[n]

\* The label of an average flesch.
complexidade(avg_flesch) ==
    IF fl_maior(avg_flesch, fl_de_int(70)) THEN "Fácil"
    ELSE IF fl_maior(avg_flesch, fl_de_int(50)) THEN "Médio"
    ELSE "Difícil"

\* criar_metricas_resumo: the five cards.  The averages are taken over the
\* fields of the results, which hold the indices as rounded; the two
\* averages shown are held as their tenths and their units.
criar_metricas_resumo(rs) ==
    IF rs = <<>> THEN None
    ELSE
        LET avg_flesch ==
                media([k \in DOMAIN rs |-> fl_razao(rs[k].flesch, 10)])
            avg_resultado ==
                media([k \in DOMAIN rs |-> fl_de_int(rs[k].resultado)])
        IN  [textos |-> Len(rs),
             flesch_medio |-> fl_round(avg_flesch, 1),
             total_palavras |->
                 soma_inteiros([k \in DOMAIN rs |-> rs[k].palavras],
                               Len(rs)),
             resultado_medio |-> fl_round(avg_resultado, 0),
             complexidade |-> complexidade(avg_flesch)]

\* exibir_resultados_arquivos: the errors listed, the count of the success
\* message and the summary, or the message that nothing was processed.
exibir_resultados_arquivos(rs, es) ==
    [erros |-> es,
     sucesso |-> Len(rs),
     resumo |-> criar_metricas_resumo(rs),
     nenhum |-> rs = <<>>]

\* exibir_resultados_planilha: the same without a list of errors.
exibir_resultados_planilha(rs) ==
    [erros |-> <<>>,
     sucesso |-> Len(rs),
     resumo |-> criar_metricas_resumo(rs),
     nenhum |-> rs = <<>>]

Lotes(S) == SeqAte(S, MaxDocs)

InitLote ==
    /\ modo \in { "arquivos", "planilha" }
    /\ documentos \in
         IF modo = "arquivos" THEN Lotes(Arquivos) \ { <<>> }
         ELSE Lotes(Linhas)
    /\ etapa = "aguardando"
    /\ cliques = 0
    /\ proximo = 1
    /\ atual = None
    /\ resultados = <<>>
    /\ erros = <<>>
    /\ temporarios = {}
    /\ session_state = <<>>
    /\ cargas = 0
    /\ tela = None
    /\ entrada = SemEntrada
    /\ resultado_analise = None
    /\ fase = "ocioso"
    /\ texto = <<>>
    /\ texto_lower = <<>>
    /\ i = 0
    /\ silabas_total = 0
    /\ pc = "fim"
    /\ retorno = SemRetorno
    /\ variantes = <<>>

\* The button of either tab, in a new run of the script or in a run after
\* results were shown: carregar_banco(), and the lists start empty.
Clicar ==
    /\ etapa \in { "aguardando", "exibido" }
    /\ cliques < MaxCliques
    /\ cliques' = cliques + 1
    /\ \E carga \in Cargas :
         /\ session_state' = carregar_banco(session_state, carga)
         /\ cargas' = cargas_apos(session_state, cargas)
    /\ resultados' = <<>>
    /\ erros' = <<>>
    /\ proximo' = 1
    /\ tela' = None
    /\ etapa' = "laco"
    /\ UNCHANGED <<modo, documentos, atual, temporarios>>
    /\ UNCHANGED <<vars_silabas, vars_analise, variantes>>

\* if st.button("Analisar Documentos")
ClicarAnalisarDocumentos ==
    /\ modo = "arquivos"
    /\ Clicar

\* if st.button("Analisar Coluna")
ClicarAnalisarColuna ==
    /\ modo = "planilha"
    /\ Clicar

\* The temporary file that the call under way writes.
tmp_path == <<cliques, proximo>>

\* The loop of aba_arquivos at the file at proximo: analisar_texto_arquivo
\* is called and writes the bytes of the file to a temporary file.
SalvarTemporario ==
    /\ etapa = "laco"
    /\ modo = "arquivos"
    /\ proximo <= Len(documentos)
    /\ temporarios' = temporarios \cup { tmp_path }
    /\ etapa' = "temporario"
    /\ UNCHANGED <<cliques, modo, documentos, proximo, atual, resultados,
                   erros, session_state, cargas, tela>>
    /\ UNCHANGED <<vars_silabas, vars_analise, variantes>>

\* The rest of analisar_texto_arquivo: the text is extracted, the temporary
\* file unlinked and the text analysed, or the exception handler is run;
\* the function returns.
AnalisarArquivo ==
    /\ etapa = "temporario"
    /\ atual' = analisar_texto_arquivo(documentos[proximo], proximo)
    /\ temporarios' =
         IF temporario_deixado(documentos[proximo])
         THEN temporarios
         ELSE temporarios \ { tmp_path }
    /\ etapa' = "analisado"
    /\ UNCHANGED <<cliques, modo, documentos, proximo, resultados, erros,
                   session_state, cargas, tela>>
    /\ UNCHANGED <<vars_silabas, vars_analise, variantes>>

\* if resultado: resultados.append(resultado)
ArquivoComResultado ==
    /\ etapa = "analisado"
    /\ modo = "arquivos"
    /\ atual.resultado # None
    /\ resultados' = Append(resultados, atual.resultado)
    /\ proximo' = proximo + 1
    /\ atual' = None
    /\ etapa' = "laco"
    /\ UNCHANGED <<cliques, modo, documentos, erros, temporarios, session_state,
                   cargas, tela>>
    /\ UNCHANGED <<vars_silabas, vars_analise, variantes>>

\* else: erros.append(...)
ArquivoComErro ==
    /\ etapa = "analisado"
    /\ modo = "arquivos"
    /\ atual.resultado = None
    /\ erros' = Append(erros, [documento |-> proximo,
                               status |-> atual.status])
    /\ proximo' = proximo + 1
    /\ atual' = None
    /\ etapa' = "laco"
    /\ UNCHANGED <<cliques, modo, documentos, resultados, temporarios,
                   session_state, cargas, tela>>
    /\ UNCHANGED <<vars_silabas, vars_analise, variantes>>

\* The loop of analisar_coluna_planilha at a row whose cell holds no text:
\* the row is passed over.
LinhaSemTexto ==
    /\ etapa = "laco"
    /\ modo = "planilha"
    /\ proximo <= Len(documentos)
    /\ ~linha_com_texto(documentos[proximo])
    /\ proximo' = proximo + 1
    /\ UNCHANGED <<cliques, modo, documentos, etapa, atual, resultados, erros,
                   temporarios, session_state, cargas, tela>>
    /\ UNCHANGED <<vars_silabas, vars_analise, variantes>>

\* The loop at a row with a text: analisar_texto_simples is called and
\* returns.
AnalisarLinha ==
    /\ etapa = "laco"
    /\ modo = "planilha"
    /\ proximo <= Len(documentos)
    /\ linha_com_texto(documentos[proximo])
    /\ atual' = analisar_texto_simples(documentos[proximo].entrada)
    /\ etapa' = "analisado"
    /\ UNCHANGED <<cliques, modo, documentos, proximo, resultados, erros,
                   temporarios, session_state, cargas, tela>>
    /\ UNCHANGED <<vars_silabas, vars_analise, variantes>>

\* resultado is None: nothing is appended.
LinhaSemResultado ==
    /\ etapa = "analisado"
    /\ modo = "planilha"
    /\ atual = None
    /\ proximo' = proximo + 1
    /\ etapa' = "laco"
    /\ UNCHANGED <<cliques, modo, documentos, atual, resultados, erros,
                   temporarios, session_state, cargas, tela>>
    /\ UNCHANGED <<vars_silabas, vars_analise, variantes>>

\* if resultado: resultados.append(resultado_linha)
LinhaComResultado ==
    /\ etapa = "analisado"
    /\ modo = "planilha"
    /\ atual # None
    /\ resultados' = Append(resultados, resultado_linha(atual, proximo))
    /\ proximo' = proximo + 1
    /\ atual' = None
    /\ etapa' = "laco"
    /\ UNCHANGED <<cliques, modo, documentos, erros, temporarios, session_state,
                   cargas, tela>>
    /\ UNCHANGED <<vars_silabas, vars_analise, variantes>>

\* The loop of aba_arquivos is over: exibir_resultados_arquivos.
ExibirResultadosArquivos ==
    /\ etapa = "laco"
    /\ modo = "arquivos"
    /\ proximo > Len(documentos)
    /\ tela' = exibir_resultados_arquivos(resultados, erros)
    /\ etapa' = "exibido"
    /\ UNCHANGED <<cliques, modo, documentos, proximo, atual, resultados, erros,
                   temporarios, session_state, cargas>>
    /\ UNCHANGED <<vars_silabas, vars_analise, variantes>>

\* analisar_coluna_planilha has returned: exibir_resultados_planilha.
ExibirResultadosPlanilha ==
    /\ etapa = "laco"
    /\ modo = "planilha"
    /\ proximo > Len(documentos)
    /\ tela' = exibir_resultados_planilha(resultados)
    /\ etapa' = "exibido"
    /\ UNCHANGED <<cliques, modo, documentos, proximo, atual, resultados, erros,
                   temporarios, session_state, cargas>>
    /\ UNCHANGED <<vars_silabas, vars_analise, variantes>>

NextLote ==
    \/ ClicarAnalisarDocumentos
    \/ ClicarAnalisarColuna
    \/ SalvarTemporario
    \/ AnalisarArquivo
    \/ ArquivoComResultado
    \/ ArquivoComErro
    \/ LinhaSemTexto
    \/ AnalisarLinha
    \/ LinhaSemResultado
    \/ LinhaComResultado
    \/ ExibirResultadosArquivos
    \/ ExibirResultadosPlanilha

SpecLote == InitLote /\ [][NextLote]_vars

---------------------------------------------------------------------------
\* Properties of the batch analyses, under SpecLote.

\* The document's text reaches the division guard with a zero denominator:
\* its metrics are undefined.
metrica_indefinida(doc) ==
    /\ doc.origem \in { "extraido", "celula" }
    /\ doc.entrada.texto = "presente"
    /\ doc.entrada.contadores = "ok"
    /\ divisao_por_zero(doc.entrada)

\* The position in the batch of the document a result is of.
documento_de(r) ==
    IF "arquivo" \in DOMAIN r THEN r.arquivo ELSE r.linha

\* C9: in both batch analyses, once the results are shown, a document whose
\* metrics are undefined is in no result and is in the list of errors shown.
C9_ExcluidoEReportado ==
    etapa = "exibido" =>
        \A d \in DOMAIN documentos :
            metrica_indefinida(documentos[d]) =>
                /\ \A k \in DOMAIN resultados :
                       documento_de(resultados[k]) # d
                /\ \E k \in DOMAIN tela.erros :
                       tela.erros[k].documento = d

\* C10: when one document was analysed, the label shown is the one that the
\* document's flesch selects before it is rounded.
C10_RotuloDoValorExato ==
    etapa = "exibido" /\ Len(resultados) = 1 =>
        LET en == documentos[documento_de(resultados[1])].entrada
        IN  tela.resumo.complexidade =
                complexidade(indice_flesch(en.letras, en.silabas,
                    en.palavras, en.sentencas, en.complexas))

\* C14: in a session the loader is called at most once, and exactly once by
\* the first call of carregar_banco, whether it returns a bank or raises;
\* from then on the bank held by the session, which every call returns, is
\* never replaced and the loader never called again.
C14_UmaCarga ==
    /\ [](cargas <= 1)
    /\ [](cliques >= 1 =>
            cargas = 1 /\ "banco_palavras" \in DOMAIN session_state)
    /\ [][cliques >= 1 =>
            session_state' = session_state /\ cargas' = cargas]_vars

\* C14's case: carregar_banco has been called a second time in a session
\* whose first load raised, and the empty bank of the fallback is still the
\* one held.
C14_Witness ==
    /\ cliques = 2
    /\ cargas = 1
    /\ session_state["banco_palavras"] = "set()"

\* C16: outside a call of analisar_texto_arquivo no temporary file is on
\* disk: each call has deleted its own by the time it returns.
C16_TemporarioApagado ==
    etapa # "temporario" => temporarios = {}

===========================================================================
